---- MODULE Spec2Model ----
(***************************************************************************)
(* A model of the BackOffice ERP MCP server: the operation normalizer and  *)
(* schema compiler of src/utils/openapi.js, the request executor and the   *)
(* session manager of the Streamable-HTTP server.                          *)
(*                                                                         *)
(* Strings whose characters matter (operation ids, paths, URLs) are        *)
(* sequences of one-character strings; "abc" is <<"a","b","c">>.           *)
(***************************************************************************)
EXTENDS Integers, Sequences, FiniteSets, TLC

\* ------------------------------------------------------------------ bounds
\* Operations one document contributes to a load.
MaxOps == 3

\* Calls of createSession in one run of the server.
MaxSessions == 2
\* Requests the server answers in one run.
MaxRequests == 4

\* Trailing slashes of a base URL, leading slashes of a path.
MaxSlashes == 2

\* The number of parameters of an operation.
MaxParams == 3

\* The number of times the server instance of a session is closed.
MaxCloses == 2

\* The depth the call stack of the schema compiler may reach.
MaxStack == 8

\* The number of content types a request body declares.
MaxContentTypes == 3

\* ------------------------------------------------------- operation normalizer
VARIABLES operations, seen, curPath, curMethods, donePaths, returned

normVars == <<operations, seen, curPath, curMethods, donePaths, returned>>

\* ------------------------------------------------------------ session manager
VARIABLES sessions, instances, pendingInit, resp, reqCount

sessVars == <<sessions, instances, pendingInit, resp, reqCount>>

\* ------------------------------------------------------------ buildRequestUrl
\* The arguments of one call of buildRequestUrl and what it returned.
VARIABLES urlBase, urlPath, urlParams, urlResult

urlVars == <<urlBase, urlPath, urlParams, urlResult>>

\* ----------------------------------------------------------- request executor
\* The configuration, the arguments of one call of executeOperation, the
\* request it hands to axios, the calls of axios.request it has made, how the
\* call of axios.request settled, and how executeOperation ended.
VARIABLES apiConfig, securityConfig, operation, input, request, httpCalls, settled, result, phase

execVars ==
    <<apiConfig, securityConfig, operation, input, request, httpCalls, settled, result, phase>>

\* ----------------------------------------------------------- schema compiler
\* The OpenAPI document, the frames of the calls of convertSchemaToZod and of
\* the builders it calls, the references on the current path, the value the
\* last call returned to its caller, and the schema the outermost call compiles.
VARIABLES document, callStack, visitedRefs, returnValue, rootSchema

zodVars == <<document, callStack, visitedRefs, returnValue, rootSchema>>

\* ----------------------------------------------------------- tool handler
\* One call of a registered tool: the operation of the tool, the arguments of
\* the call, the data handed to executeOperation if the validation passed, the
\* error result returned by the validation or by executeOperation, and the
\* requests executeOperation handed to axios.
VARIABLES toolOperation, rawInput, parsed, toolResult, toolRequests

toolVars == <<toolOperation, rawInput, parsed, toolResult, toolRequests>>

\* ----------------------------------------------------------- parameter grouping
\* One call of groupParametersByLocation: its argument, the groups built so
\* far, the number of parameters the loop has handled, and whether it returned.
VARIABLES parameterList, grouped, handled, groupsReturned

groupVars == <<parameterList, grouped, handled, groupsReturned>>

\* ----------------------------------------------------------- request body
\* One call of normalizeRequestBody and the Content-Type the executor then
\* sets: the requestBody of the document, the contentType of the tool input,
\* the descriptor returned, the Content-Type header, and the position.
VARIABLES bodyArg, contentTypeArg, bodyDescriptor, contentTypeSent, bodyPhase

bodyVars == <<bodyArg, contentTypeArg, bodyDescriptor, contentTypeSent, bodyPhase>>

vars == <<normVars, sessVars, urlVars, execVars, zodVars, toolVars, groupVars, bodyVars>>

\* The frame of an action of one component: the others' state stays.
NormOnly == UNCHANGED <<sessVars, urlVars, execVars, zodVars, toolVars, groupVars, bodyVars>>
SessOnly == UNCHANGED <<normVars, urlVars, execVars, zodVars, toolVars, groupVars, bodyVars>>
UrlOnly == UNCHANGED <<normVars, sessVars, execVars, zodVars, toolVars, groupVars, bodyVars>>
ExecOnly == UNCHANGED <<normVars, sessVars, urlVars, zodVars, toolVars, groupVars, bodyVars>>
ZodOnly == UNCHANGED <<normVars, sessVars, urlVars, execVars, toolVars, groupVars, bodyVars>>
ToolOnly == UNCHANGED <<normVars, sessVars, urlVars, execVars, zodVars, groupVars, bodyVars>>
GroupOnly == UNCHANGED <<normVars, sessVars, urlVars, execVars, zodVars, toolVars, bodyVars>>
BodyOnly == UNCHANGED <<normVars, sessVars, urlVars, execVars, zodVars, toolVars, groupVars>>

\* JavaScript's undefined where a string is expected: no sequence of
\* characters equals it.
None == <<"undefined">>

LowerChars == {"a", "e", "g", "t"}
UpperChars == {"A", "E", "G", "T"}
DigitChars == {"0", "1", "2", "3", "4", "5", "6", "7", "8", "9"}

\* \w of a JavaScript regular expression: [A-Za-z0-9_].
IsWordChar(c) == c \in LowerChars \cup UpperChars \cup DigitChars \cup {"_"}

\* \s of a JavaScript regular expression.
SpaceChars == {" "}

IsSpaceChar(c) == c \in SpaceChars

toLowerCaseChar(c) ==
    CASE c = "A" -> "a"
      [] c = "E" -> "e"
      [] c = "G" -> "g"
      [] c = "T" -> "t"
      [] OTHER -> c

toLowerCase(s) == [i \in 1..Len(s) |-> toLowerCaseChar(s[i])]

toUpperCaseChar(c) ==
    CASE c = "a" -> "A"
      [] c = "e" -> "E"
      [] c = "g" -> "G"
      [] c = "t" -> "T"
      [] OTHER -> c

toUpperCase(s) == [i \in 1..Len(s) |-> toUpperCaseChar(s[i])]

\* .replace(/[^\w\s]/g, '_')
ReplaceNonWord(s) ==
    [i \in 1..Len(s) |-> IF IsWordChar(s[i]) \/ IsSpaceChar(s[i]) THEN s[i] ELSE "_"]

\* The sequence s with every maximal run of characters of the set class
\* replaced by one "_": .replace(/\s+/g, '_') and .replace(/_+/g, '_').
RECURSIVE CollapseRuns(_, _, _)
CollapseRuns(s, class, inRun) ==
    IF s = <<>> THEN <<>>
    ELSE IF Head(s) \in class
         THEN (IF inRun THEN <<>> ELSE <<"_">>) \o CollapseRuns(Tail(s), class, TRUE)
         ELSE <<Head(s)>> \o CollapseRuns(Tail(s), class, FALSE)

\* .replace(/^_|_$/g, ''): one leading and one trailing underscore go.
TrimUnderscore(s) ==
    LET noLead == IF s # <<>> /\ Head(s) = "_" THEN Tail(s) ELSE s
    IN  IF noLead # <<>> /\ noLead[Len(noLead)] = "_"
        THEN SubSeq(noLead, 1, Len(noLead) - 1)
        ELSE noLead

sanitizeOperationId(operationId) ==
    toLowerCase(
        TrimUnderscore(
            CollapseRuns(
                CollapseRuns(ReplaceNonWord(operationId), SpaceChars, FALSE),
                {"_"}, FALSE)))

DigitOf(d) ==
    CASE d = 0 -> "0" [] d = 1 -> "1" [] d = 2 -> "2" [] d = 3 -> "3" [] d = 4 -> "4"
      [] d = 5 -> "5" [] d = 6 -> "6" [] d = 7 -> "7" [] d = 8 -> "8" [] d = 9 -> "9"

\* The decimal digits of a natural number, as a template literal prints it.
RECURSIVE NumberToString(_)
NumberToString(n) ==
    IF n < 10 THEN <<DigitOf(n)>>
    ELSE NumberToString(n \div 10) \o <<DigitOf(n % 10)>>

\* seen.get(baseName) ?? 0
SeenCount(map, baseName) == IF baseName \in DOMAIN map THEN map[baseName] ELSE 0

\* seen.set(baseName, currentCount + 1)
SeenAfter(map, baseName) ==
    [k \in DOMAIN map \cup {baseName} |->
        IF k = baseName THEN SeenCount(map, baseName) + 1 ELSE map[k]]

getUniqueOperationId(baseName, map) ==
    LET currentCount == SeenCount(map, baseName)
    IN  IF currentCount = 0 THEN baseName
        ELSE baseName \o <<"_">> \o NumberToString(currentCount + 1)

HTTP_METHODS == {<<"g", "e", "t">>, <<"p", "u", "t">>}

\* The keys a path item of the document may carry: method names in either
\* case, and a key that is no method.
MethodKeys == {<<"g", "e", "t">>, <<"G", "E", "T">>, <<"p", "a">>}

\* The operationIds the document may state: "a", "A", "a 2" and "-a".
OperationIds == {<<"a">>, <<"A">>, <<"a", " ", "2">>, <<"-", "a">>}

\* The paths of the document's path table: "/a" and "/a-2".
ApiPaths == {<<"/", "a">>, <<"/", "a", "-", "2">>}

\* operation.operationId ?? `${method}_${apiPath}`
RawName(method, apiPath, operationId) ==
    IF operationId # None THEN operationId ELSE method \o <<"_">> \o apiPath

NormInit ==
    /\ operations = <<>>
    /\ seen = <<>>
    /\ curPath = None
    /\ curMethods = {}
    /\ donePaths = {}
    /\ returned = FALSE

\* Object.entries walks each path once and each of its keys once: the next
\* entry is another key of the current path, or the first key of a new path.
NextEntry(apiPath, method) ==
    \/ apiPath = curPath /\ method \notin curMethods
    \/ apiPath # curPath /\ apiPath \notin donePaths

Advance(apiPath, method) ==
    /\ curPath' = apiPath
    /\ curMethods' = IF apiPath = curPath THEN curMethods \cup {method} ELSE {method}
    /\ donePaths' = donePaths \cup {apiPath}

\* One iteration of the inner loop that pushes an operation.
PushOperation ==
    /\ NormOnly
    /\ ~returned
    /\ Len(operations) < MaxOps
    /\ \E apiPath \in ApiPaths, method \in MethodKeys, operationId \in OperationIds \cup {None} :
        /\ NextEntry(apiPath, method)
        /\ toLowerCase(method) \in HTTP_METHODS
        /\ LET baseName == sanitizeOperationId(RawName(method, apiPath, operationId))
               uniqueId == getUniqueOperationId(baseName, seen)
           IN  /\ seen' = SeenAfter(seen, baseName)
               /\ operations' = Append(operations,
                      [id |-> uniqueId, method |-> toUpperCase(method), path |-> apiPath])
        /\ Advance(apiPath, method)
    /\ UNCHANGED returned

\* One iteration that meets `continue`: the key is no HTTP method, or its
\* value is no object.
SkipEntry ==
    /\ NormOnly
    /\ ~returned
    /\ \E apiPath \in ApiPaths, method \in MethodKeys, wellFormed \in BOOLEAN :
        /\ NextEntry(apiPath, method)
        /\ toLowerCase(method) \notin HTTP_METHODS \/ ~wellFormed
        /\ Advance(apiPath, method)
    /\ UNCHANGED <<operations, seen, returned>>

\* The loops end and buildOperationsFromSpec returns the list.
ReturnOperations ==
    /\ NormOnly
    /\ ~returned
    /\ returned' = TRUE
    /\ UNCHANGED <<operations, seen, curPath, curMethods, donePaths>>

NormNext == PushOperation \/ SkipEntry \/ ReturnOperations

\* ------------------------------------------------------------ session manager
\* No Mcp-Session-Id header (extractSessionId returns undefined).
NoSid == 0

\* A generator that hands out the first identifier again on every call.
ReissuedId == NoSid + 1

\* randomUUID(): the n-th identifier generated is n, never one generated before.
randomUUID == Cardinality({i \in 1..Len(instances) : instances[i].sessionId # NoSid}) + 1

\* The values a request's Mcp-Session-Id header may carry.
HeaderSids == 1..MaxSessions

Message400Init == "Initialization request required before other calls."
Message400Missing == "Missing Mcp-Session-Id header."
Message404 == "Unknown session. Reinitialize your MCP client."

\* respondWithJsonError(res, statusCode, message), and the transport's own
\* answer (routed names the session record whose transport wrote it).
\* The request answered last (its method, its session id header, whether its
\* body is an initialization request) and the answer.
Response(method, sid, isInit, status, message, routed) ==
    [method |-> method, sid |-> sid, isInitializeRequest |-> isInit,
     status |-> status, message |-> message, routed |-> routed]

NoResponse == Response("none", NoSid, FALSE, 0, "", 0)

SessInit ==
    /\ sessions = <<>>
    /\ instances = <<>>
    /\ pendingInit = {}
    /\ resp = NoResponse
    /\ reqCount = 0

Answer(r) ==
    /\ reqCount < MaxRequests
    /\ reqCount' = reqCount + 1
    /\ resp' = r

\* sessions.set(sessionId, sessionRecord)
SessionsSet(map, sessionId, sessionRecord) ==
    [k \in DOMAIN map \cup {sessionId} |-> IF k = sessionId THEN sessionRecord ELSE map[k]]

\* A sessions.delete that removes nothing.
SessionsDeleteKeeps(map, sessionId) == map

\* sessions.delete(sessionId)
SessionsDelete(map, sessionId) ==
    [k \in DOMAIN map \ {sessionId} |-> map[k]]

\* safeCloseServer(sessionRecord.server): the server instance is closed, and
\* closing it closes its transport; an error of server.close() is caught.
\* closes counts the calls.
safeCloseServer(insts, i) ==
    [insts EXCEPT ![i].serverClosed = TRUE, ![i].transportClosed = TRUE,
                  ![i].closes = @ + 1]

\* app.post that calls createSession before it looks at the body.
PostNotInitializeCreates ==
    /\ SessOnly
    /\ Len(instances) < MaxSessions
    /\ instances' = Append(instances,
           [sessionId |-> NoSid, serverClosed |-> FALSE, transportClosed |-> FALSE, closes |-> 0])
    /\ Answer(Response("POST", NoSid, FALSE, 400, Message400Init, 0))
    /\ UNCHANGED <<sessions, pendingInit>>

\* app.post, no session id, body is no initialization request.
PostNotInitialize ==
    /\ SessOnly
    /\ Answer(Response("POST", NoSid, FALSE, 400, Message400Init, 0))
    /\ UNCHANGED <<sessions, instances, pendingInit>>

\* app.post, no session id, initialization request: createSession builds a
\* server instance and a transport and connects them.
PostInitializeCreate ==
    /\ SessOnly
    /\ Len(instances) < MaxSessions
    /\ reqCount + Cardinality(pendingInit) < MaxRequests
    /\ instances' = Append(instances,
           [sessionId |-> NoSid, serverClosed |-> FALSE, transportClosed |-> FALSE, closes |-> 0])
    /\ pendingInit' = pendingInit \cup {Len(instances) + 1}
    /\ UNCHANGED <<sessions, resp, reqCount>>

\* session.transport.handleRequest of the new session: the transport accepts
\* the initialization, generates the session id and calls
\* onsessioninitialized; or it answers with an error of its own; or it throws
\* and handleTransportError answers 500.
PostInitializeHandle ==
    /\ SessOnly
    /\ \E i \in pendingInit :
        /\ pendingInit' = pendingInit \ {i}
        /\ \/ /\ instances' = [instances EXCEPT ![i].sessionId = randomUUID]
              /\ sessions' = SessionsSet(sessions, randomUUID,
                                 [server |-> i, transport |-> i])
              /\ Answer(Response("POST", NoSid, TRUE, 200, "initialized", i))
           \/ /\ Answer(Response("POST", NoSid, TRUE, 406, "transport", i))
              /\ UNCHANGED <<sessions, instances>>
           \/ /\ Answer(Response("POST", NoSid, TRUE, 500, "transport error", i))
              /\ UNCHANGED <<sessions, instances>>

\* app.post, app.get or app.delete with a session id that is not in the map.
UnknownSession ==
    /\ SessOnly
    /\ \E method \in {"POST", "GET", "DELETE"}, sid \in HeaderSids, isInit \in BOOLEAN :
        /\ sid \notin DOMAIN sessions
        /\ Answer(Response(method, sid, isInit, 404, Message404, 0))
        /\ UNCHANGED <<sessions, instances, pendingInit>>

\* handleSessionRequest without a session id.
MissingSessionId ==
    /\ SessOnly
    /\ \E method \in {"GET", "DELETE"} :
        /\ Answer(Response(method, NoSid, FALSE, 400, Message400Missing, 0))
        /\ UNCHANGED <<sessions, instances, pendingInit>>

\* app.post or app.get with the id of a session of the map: the session's
\* transport handles the request, answers an error of its own, or throws.
RouteToSession ==
    /\ SessOnly
    /\ \E method \in {"POST", "GET"}, sid \in HeaderSids :
        /\ sid \in DOMAIN sessions
        /\ \E outcome \in {<<200, "handled">>, <<400, "transport">>, <<500, "transport error">>} :
              Answer(Response(method, sid, FALSE, outcome[1], outcome[2],
                              sessions[sid].transport))
        /\ UNCHANGED <<sessions, instances, pendingInit>>

\* A transport.onclose that empties the session map.
OnCloseClears(map, sessionId) == <<>>

\* transport.onclose: if (transport.sessionId) sessions.delete(...)
OnCloseDelete(map, sessionId) ==
    IF sessionId # NoSid THEN SessionsDelete(map, sessionId) ELSE map

\* The callback onsessionclosed of the transport of instance i, called with
\* the session id: the session map and the instances after it.
onsessionclosed(map, insts, i, sessionId) ==
    [sessions |-> SessionsDelete(map, sessionId), instances |-> safeCloseServer(insts, i)]

\* The callback transport.onclose of the transport of instance i.
onclose(map, insts, i) ==
    [sessions |-> OnCloseDelete(map, insts[i].sessionId),
     instances |-> safeCloseServer(insts, i)]

\* app.delete with the id of a session of the map: the transport calls
\* onsessionclosed and closes, which calls transport.onclose; or it answers an
\* error of its own.
DeleteSession ==
    /\ SessOnly
    /\ \E sid \in HeaderSids :
        /\ sid \in DOMAIN sessions
        /\ \/ LET i == sessions[sid].server
                  closed == onsessionclosed(sessions, instances, i, sid)
                  after == onclose(closed.sessions, closed.instances, i)
              IN  /\ sessions' = after.sessions
                  /\ instances' = after.instances
                  /\ Answer(Response("DELETE", sid, FALSE, 200, "closed", sessions[sid].transport))
           \/ /\ Answer(Response("DELETE", sid, FALSE, 400, "transport",
                              sessions[sid].transport))
              /\ UNCHANGED <<sessions, instances>>
        /\ UNCHANGED pendingInit

\* transport.onclose of a connected transport: the channel closed, or the
\* transport is closed once more.
TransportOnClose ==
    /\ SessOnly
    /\ \E i \in 1..Len(instances) \ pendingInit :
        /\ instances[i].closes < MaxCloses
        /\ sessions' = onclose(sessions, instances, i).sessions
        /\ instances' = onclose(sessions, instances, i).instances
        /\ UNCHANGED <<pendingInit, resp, reqCount>>

SessNext ==
    \/ PostNotInitialize
    \/ PostInitializeCreate
    \/ PostInitializeHandle
    \/ UnknownSession
    \/ MissingSessionId
    \/ RouteToSession
    \/ DeleteSession
    \/ TransportOnClose

\* ------------------------------------------------------------ buildRequestUrl
\* A lone surrogate code unit: a string holding one is not well-formed UTF-16.
LoneSurrogate == "\\uD800"

\* The URIError encodeURIComponent throws, where a string was expected.
URIError == <<"URIError: URI malformed">>

\* A path parameter value: a string or a number.
StrValue(s) == [type |-> "string", v |-> s]
NumValue(n) == [type |-> "number", v |-> n]

\* String(value)
StringOf(value) == IF value.type = "number" THEN NumberToString(value.v) ELSE value.v

\* encodeURIComponent of one character: the unreserved characters stay, the
\* others are percent-encoded.
EncodeChar(c) ==
    CASE c = " " -> <<"%", "2", "0">>
      [] c = "/" -> <<"%", "2", "F">>
      [] c = "{" -> <<"%", "7", "B">>
      [] c = "}" -> <<"%", "7", "D">>
      [] c = "$" -> <<"%", "2", "4">>
      [] OTHER -> <<c>>

RECURSIVE encodeURIComponent(_)
encodeURIComponent(s) ==
    IF s = <<>> THEN <<>> ELSE EncodeChar(Head(s)) \o encodeURIComponent(Tail(s))

\* encodeURIComponent throws URIError on a string with a lone surrogate.
EncodeThrows(s) == \E i \in 1..Len(s) : s[i] = LoneSurrogate

\* Whether pattern occurs in s at index i.
OccursAt(s, pattern, i) ==
    /\ i + Len(pattern) - 1 <= Len(s)
    /\ SubSeq(s, i, i + Len(pattern) - 1) = pattern

\* s.replace(pattern, replacement) with a string pattern: the first
\* occurrence only.
ReplaceFirst(s, pattern, replacement) ==
    LET hits == {i \in 1..Len(s) : OccursAt(s, pattern, i)}
    IN  IF hits = {} THEN s
        ELSE LET i == CHOOSE h \in hits : \A g \in hits : h <= g
             IN  SubSeq(s, 1, i - 1) \o replacement \o SubSeq(s, i + Len(pattern), Len(s))

\* pathParams[key], where pathParams has the key.
ParamValue(entries, key) ==
    LET i == CHOOSE j \in 1..Len(entries) : entries[j][1] = key IN entries[i][2]

\* typeof pathParams[key] !== 'undefined'
HasParam(entries, key) == \E j \in 1..Len(entries) : entries[j][1] = key

\* `{${key}}`
Placeholder(key) == <<"{">> \o key \o <<"}">>

\* The loop over Object.entries(pathParams); entries are <<key, value>> pairs
\* in insertion order.
RECURSIVE SubstitutePathParams(_, _)
SubstitutePathParams(resolvedPath, entries) ==
    IF entries = <<>> THEN resolvedPath
    ELSE SubstitutePathParams(
             ReplaceFirst(resolvedPath, Placeholder(Head(entries)[1]),
                          encodeURIComponent(StringOf(Head(entries)[2]))),
             Tail(entries))

\* .replace(/\/$/, '')
StripTrailingSlash(s) ==
    IF s # <<>> /\ s[Len(s)] = "/" THEN SubSeq(s, 1, Len(s) - 1) ELSE s

\* .replace(/^\//, '')
StripLeadingSlash(s) == IF s # <<>> /\ Head(s) = "/" THEN Tail(s) ELSE s

buildRequestUrl(baseUrl, apiPath, pathParams) ==
    IF \E i \in 1..Len(pathParams) : EncodeThrows(StringOf(pathParams[i][2]))
    THEN URIError
    ELSE StripTrailingSlash(baseUrl) \o <<"/">>
             \o StripLeadingSlash(SubstitutePathParams(apiPath, pathParams))

Slashes(n) == [i \in 1..n |-> "/"]

\* Base URLs: "h" with 0..MaxSlashes trailing slashes.
UrlBases == {<<"h">> \o Slashes(k) : k \in 0..MaxSlashes}

\* Path templates after their leading slashes: "a", "{i}", "{i}/{j}",
\* "{i}/{i}" and "{j}{i}".
TemplateBodies ==
    { <<"a">>,
      <<"{", "i", "}">>,
      <<"{", "i", "}", "/", "{", "j", "}">>,
      <<"{", "i", "}", "/", "{", "i", "}">>,
      <<"{", "j", "}", "{", "i", "}">> }

UrlPaths == {Slashes(k) \o body : k \in 0..MaxSlashes, body \in TemplateBodies}

\* Values of pathParams: "4", "a b", "{j}", the number 42 and a string that is
\* not well-formed.
ParamValues ==
    { StrValue(<<"4">>), StrValue(<<"a", " ", "b">>), StrValue(<<"{", "j", "}">>),
      NumValue(42), StrValue(<<"x", LoneSurrogate>>) }

ParamKeys == {<<"i">>, <<"j">>}

\* Object.entries(pathParams): each key at most once, in insertion order.
ParamEntries ==
    {<<>>}
    \cup {<<<<k, v>>>> : k \in ParamKeys, v \in ParamValues}
    \cup {<<<<k1, v1>>, <<k2, v2>>>> :
             <<k1, k2>> \in {<<<<"i">>, <<"j">>>>, <<<<"j">>, <<"i">>>>},
             <<v1, v2>> \in ParamValues \X ParamValues}

\* No call of buildRequestUrl has returned.
NoUrl == <<"pending">>

UrlIdle ==
    /\ urlBase = <<>>
    /\ urlPath = <<>>
    /\ urlParams = <<>>
    /\ urlResult = NoUrl

UrlInit ==
    /\ urlBase \in UrlBases
    /\ urlPath \in UrlPaths
    /\ urlParams \in ParamEntries
    /\ urlResult = NoUrl

\* buildRequestUrl returns the URL.
BuildRequestUrlReturns ==
    /\ UrlOnly
    /\ urlResult = NoUrl
    /\ buildRequestUrl(urlBase, urlPath, urlParams) # URIError
    /\ urlResult' = buildRequestUrl(urlBase, urlPath, urlParams)
    /\ UNCHANGED <<urlBase, urlPath, urlParams>>

\* buildRequestUrl throws out of encodeURIComponent.
BuildRequestUrlThrows ==
    /\ UrlOnly
    /\ urlResult = NoUrl
    /\ buildRequestUrl(urlBase, urlPath, urlParams) = URIError
    /\ urlResult' = URIError
    /\ UNCHANGED <<urlBase, urlPath, urlParams>>

UrlNext == BuildRequestUrlReturns \/ BuildRequestUrlThrows

\* ----------------------------------------------------------- request executor
\* An optional field of the input is the set of its values: empty when the
\* field is undefined, else the one value.
Undefined == {}
Some(x) == {x}
IsDefined(o) == o # {}
ValueOf(o) == CHOOSE x \in o : TRUE

\* o ?? d
Coalesce(o, d) == IF IsDefined(o) THEN ValueOf(o) ELSE d

\* apiConfig.timeoutMs when BACKOFFICE_TIMEOUT_MS is not set.
DefaultTimeoutMs == 15000

\* securityConfig.headerName
HeaderName == "authtoken"

EmptyMap == [k \in {} |-> ""]

\* map[key] = value
MapSet(map, key, value) ==
    [k \in DOMAIN map \cup {key} |-> IF k = key THEN value ELSE map[k]]

\* !map[key]: the key is absent or its value is the empty string.
Falsy(map, key) == key \notin DOMAIN map \/ map[key] = ""

\* input.baseUrl ?? apiConfig.baseUrl
EffectiveBaseUrl(in, config) == Coalesce(in.baseUrl, config.baseUrl)

\* A token lookup that prefers the configured default.
DefaultTokenFirst(in, config) ==
    IF config.token # "" THEN config.token ELSE Coalesce(in.token, config.token)

\* input.token ?? securityConfig.token
EffectiveToken(in, config) == Coalesce(in.token, config.token)

\* The headers after the Accept and the auth header are set.
AssembleHeaders(in, config) ==
    LET supplied == Coalesce(in.headers, EmptyMap)
        accepted == IF IsDefined(in.accept) /\ ValueOf(in.accept) # ""
                    THEN MapSet(supplied, "Accept", ValueOf(in.accept))
                    ELSE IF Falsy(supplied, "Accept")
                         THEN MapSet(supplied, "Accept", "application/json")
                         ELSE supplied
        token == EffectiveToken(in, config)
    IN  IF token # "" THEN MapSet(accepted, HeaderName, token) ELSE accepted

\* input.pathParams ?? {}
PathParamsOf(in) == Coalesce(in.pathParams, <<>>)

\* A check that stops at the first required path parameter without a value.
MissingFirstOnly(op, in) ==
    LET required == SelectSeq(op.parameters.path, LAMBDA param : param.required)
        names == [i \in 1..Len(required) |-> required[i].name]
        missing == SelectSeq(names, LAMBDA name : ~HasParam(Coalesce(in.pathParams, <<>>), name))
    IN  IF missing = <<>> THEN <<>> ELSE <<Head(missing)>>

\* The names of the required path parameters that pathParams has no value for.
MissingPathParams(op, in) ==
    LET required == SelectSeq(op.parameters.path, LAMBDA param : param.required)
        names == [i \in 1..Len(required) |-> required[i].name]
    IN  SelectSeq(names, LAMBDA name : ~HasParam(PathParamsOf(in), name))

\* names.join(', ')
RECURSIVE Join(_)
Join(names) ==
    IF names = <<>> THEN <<>>
    ELSE IF Len(names) = 1 THEN Head(names)
    ELSE Head(names) \o <<",", " ">> \o Join(Tail(names))

\* operation.requestBody?.required && typeof input.body === 'undefined'
MissingBody(op, in) ==
    /\ IsDefined(op.requestBody)
    /\ ValueOf(op.requestBody).required
    /\ ~IsDefined(in.body)

\* input.contentType ?? operation.requestBody.contentTypes[0] ?? 'application/json'
ContentTypeOf(op, in) ==
    LET contentTypes == ValueOf(op.requestBody).contentTypes
    IN  Coalesce(in.contentType,
                 IF contentTypes # <<>> THEN contentTypes[1] ELSE "application/json")

\* The headers of the outbound request.
RequestHeaders(op, in, config) ==
    IF IsDefined(op.requestBody)
    THEN MapSet(AssembleHeaders(in, config), "Content-Type", ContentTypeOf(op, in))
    ELSE AssembleHeaders(in, config)

ErrorResult(text) == [isError |-> TRUE, text |-> text, structuredContent |-> Undefined]

TextNoBaseUrl ==
    <<"No API base URL configured. Provide baseUrl in the tool input or set BACKOFFICE_BASE_URL env.">>
TextMissingPathParams == <<"Missing required path parameters: ">>
TextMissingBody ==
    <<"This operation requires a request body payload, but none was provided.">>

\* The argument of axios.request.
RequestOf(op, in, api, security) ==
    [method |-> op.method,
     url |-> buildRequestUrl(EffectiveBaseUrl(in, api), op.path, PathParamsOf(in)),
     headers |-> RequestHeaders(op, in, security),
     params |-> in.query,
     data |-> in.body,
     timeout |-> api.timeoutMs]

\* The request context formatAxiosError is given.
RequestContext(req) ==
    [method |-> req.method, url |-> req.url, headers |-> req.headers,
     params |-> req.params, body |-> req.data]

\* The operations of the tool set: GET /a; GET /{i} with a required path
\* parameter; POST /{i}/{j} with two required path parameters and a required
\* body; POST /{i} with an optional path parameter and an optional body that
\* declares no content type; POST /a with a required body of two content types.
PathParam(name, required) == [name |-> name, required |-> required]

RequestBody(required, contentTypes) == [required |-> required, contentTypes |-> contentTypes]

Operations ==
    { [method |-> "GET", path |-> <<"/", "a">>,
       parameters |-> [path |-> <<>>], requestBody |-> Undefined],
      [method |-> "GET", path |-> <<"/", "{", "i", "}">>,
       parameters |-> [path |-> <<PathParam(<<"i">>, TRUE)>>], requestBody |-> Undefined],
      [method |-> "POST", path |-> <<"/", "{", "i", "}", "/", "{", "j", "}">>,
       parameters |-> [path |-> <<PathParam(<<"i">>, TRUE), PathParam(<<"j">>, TRUE)>>],
       requestBody |-> Some(RequestBody(TRUE, <<"application/json">>))],
      [method |-> "POST", path |-> <<"/", "{", "i", "}">>,
       parameters |-> [path |-> <<PathParam(<<"i">>, FALSE)>>],
       requestBody |-> Some(RequestBody(FALSE, <<>>))],
      [method |-> "POST", path |-> <<"/", "a">>,
       parameters |-> [path |-> <<>>],
       requestBody |-> Some(RequestBody(TRUE, <<"text/plain", "application/json">>))] }

\* pathParams of an input: a well-formed value "4" or a string that is not
\* well-formed, for the keys i and j.
InputPathParams ==
    { <<>>,
      <<<<<<"i">>, StrValue(<<"4">>)>>>>,
      <<<<<<"i">>, StrValue(<<LoneSurrogate>>)>>>>,
      <<<<<<"j">>, NumValue(7)>>>>,
      <<<<<<"i">>, StrValue(<<"4">>)>>, <<<<"j">>, NumValue(7)>>>>,
      <<<<<<"i">>, StrValue(<<LoneSurrogate>>)>>, <<<<"j">>, NumValue(7)>>>> }

Inputs ==
    [baseUrl : {Undefined, Some(<<"u", "/">>)},
     token : {Undefined, Some(""), Some("explicit")},
     headers : {Undefined, Some(EmptyMap), Some([k \in {HeaderName} |-> "supplied"]),
                Some([k \in {"Accept"} |-> "text/csv"])},
     accept : {Undefined, Some("application/xml")},
     pathParams : {Undefined} \cup {Some(e) : e \in InputPathParams},
     query : {Undefined, Some("q")},
     body : {Undefined, Some("payload")},
     contentType : {Undefined, Some("text/xml")}]

\* The inputs the tool handler's validation lets through to executeOperation:
\* they have no key the input shape does not declare (accept; pathParams, body
\* and contentType where the operation declares none; undeclared path
\* parameters), and pathParams is a required key when the operation has path
\* parameters. A required key whose schema is z.any() may still be absent.
Validated(op, in) ==
    /\ in.accept = Undefined
    /\ IF op.parameters.path = <<>>
       THEN in.pathParams = Undefined
       ELSE /\ IsDefined(in.pathParams)
            /\ \A e \in 1..Len(ValueOf(in.pathParams)) :
                  \E p \in 1..Len(op.parameters.path) :
                     op.parameters.path[p].name = ValueOf(in.pathParams)[e][1]
    /\ ~IsDefined(op.requestBody) => (in.body = Undefined /\ in.contentType = Undefined)

NoResult == [isError |-> FALSE, text |-> <<>>, structuredContent |-> Undefined]

\* The executor is not called: the configuration is the defaults of config.js.
ExecIdle ==
    /\ apiConfig = [baseUrl |-> <<"h">>, timeoutMs |-> DefaultTimeoutMs]
    /\ securityConfig = [headerName |-> HeaderName, token |-> ""]
    /\ operation = CHOOSE op \in Operations : op.path = <<"/", "a">> /\ op.method = "GET"
    /\ input = CHOOSE in \in Inputs : \A f \in DOMAIN in : in[f] = Undefined
    /\ request = Undefined
    /\ httpCalls = 0
    /\ settled = Undefined
    /\ result = NoResult
    /\ phase = "idle"

\* executeOperation is called: BACKOFFICE_BASE_URL and BACKOFFICE_AUTHTOKEN may
\* be set, also to the empty string.
ExecInit ==
    /\ apiConfig \in [baseUrl : {<<>>, <<"h">>}, timeoutMs : {DefaultTimeoutMs}]
    /\ securityConfig \in [headerName : {HeaderName}, token : {"", "default"}]
    /\ operation \in Operations
    /\ input \in Inputs
    /\ request = Undefined
    /\ httpCalls = 0
    /\ settled = Undefined
    /\ result = NoResult
    /\ phase = "called"

Return(r) ==
    /\ result' = r
    /\ phase' = "returned"
    /\ UNCHANGED <<apiConfig, securityConfig, operation, input>>

\* if (!baseUrl) return ...
ReturnNoBaseUrl ==
    /\ ExecOnly
    /\ phase = "called"
    /\ EffectiveBaseUrl(input, apiConfig) = <<>>
    /\ Return(ErrorResult(TextNoBaseUrl))
    /\ UNCHANGED <<request, httpCalls, settled>>

\* if (missingPathParams.length > 0) return ...
ReturnMissingPathParams ==
    /\ ExecOnly
    /\ phase = "called"
    /\ EffectiveBaseUrl(input, apiConfig) # <<>>
    /\ MissingPathParams(operation, input) # <<>>
    /\ Return(ErrorResult(TextMissingPathParams \o Join(MissingPathParams(operation, input))))
    /\ UNCHANGED <<request, httpCalls, settled>>

\* buildRequestUrl throws: executeOperation's promise rejects.
ThrowFromBuildRequestUrl ==
    /\ ExecOnly
    /\ phase = "called"
    /\ EffectiveBaseUrl(input, apiConfig) # <<>>
    /\ MissingPathParams(operation, input) = <<>>
    /\ RequestOf(operation, input, apiConfig, securityConfig).url = URIError
    /\ phase' = "threw"
    /\ UNCHANGED <<apiConfig, securityConfig, operation, input, request, httpCalls, settled, result>>

\* if (operation.requestBody?.required && typeof input.body === 'undefined') return ...
ReturnMissingBody ==
    /\ ExecOnly
    /\ phase = "called"
    /\ EffectiveBaseUrl(input, apiConfig) # <<>>
    /\ MissingPathParams(operation, input) = <<>>
    /\ RequestOf(operation, input, apiConfig, securityConfig).url # URIError
    /\ MissingBody(operation, input)
    /\ Return(ErrorResult(TextMissingBody))
    /\ UNCHANGED <<request, httpCalls, settled>>

\* await axios.request({...}): the one outbound call is made.
DispatchRequest ==
    /\ ExecOnly
    /\ phase = "called"
    /\ EffectiveBaseUrl(input, apiConfig) # <<>>
    /\ MissingPathParams(operation, input) = <<>>
    /\ RequestOf(operation, input, apiConfig, securityConfig).url # URIError
    /\ ~MissingBody(operation, input)
    /\ request' = Some(RequestOf(operation, input, apiConfig, securityConfig))
    /\ httpCalls' = httpCalls + 1
    /\ phase' = "awaiting"
    /\ UNCHANGED <<apiConfig, securityConfig, operation, input, settled, result>>

\* The response of the remote API.
HttpResponse(status, statusText, data) ==
    [status |-> status, statusText |-> statusText, headers |-> EmptyMap, data |-> data]

\* How axios.request settled: resolved with a response, rejected with an
\* AxiosError (with the response, if one was received), or rejected with
\* another error.
Settled(kind, response, message) == [kind |-> kind, response |-> response, message |-> message]

\* axios.request resolves: the success result.
HttpResolves ==
    /\ ExecOnly
    /\ phase = "awaiting"
    /\ \E response \in {HttpResponse(200, "OK", "data"), HttpResponse(204, "", "")} :
          /\ settled' = Some(Settled("resolved", Some(response), ""))
          /\ Return([isError |-> FALSE, text |-> <<response.data>>,
                  structuredContent |-> Some([status |-> response.status,
                                              statusText |-> response.statusText,
                                              data |-> response.data,
                                              headers |-> response.headers])])
    /\ UNCHANGED <<request, httpCalls>>

\* An error result that carries the message only.
FormatMessageOnly(response, message, requestContext) ==
    ErrorResult(<<"Request failed: ", message>>)

\* formatAxiosError for an AxiosError, with the response if one was received.
formatAxiosError(response, message, requestContext) ==
    LET errorMessage ==
            IF IsDefined(response)
            THEN <<"Request failed with status ">> \o NumberToString(ValueOf(response).status)
                     \o (IF ValueOf(response).statusText # ""
                         THEN <<" (", ValueOf(response).statusText, ")">> ELSE <<>>)
                     \o <<".">>
            ELSE <<"Request failed: ", message>>
        responseContent ==
            IF IsDefined(response) /\ ValueOf(response).data # ""
            THEN <<"\n", ValueOf(response).data>> ELSE <<>>
    IN  [isError |-> TRUE,
         text |-> errorMessage \o responseContent,
         structuredContent |->
             Some([request |-> requestContext,
                   response |-> IF IsDefined(response)
                                THEN Some([status |-> ValueOf(response).status,
                                           statusText |-> ValueOf(response).statusText,
                                           headers |-> ValueOf(response).headers,
                                           data |-> ValueOf(response).data])
                                ELSE Undefined])]

\* axios.request rejects with an AxiosError that carries a response: the
\* remote API answered with an error status.
HttpRejectsWithStatus ==
    /\ ExecOnly
    /\ phase = "awaiting"
    /\ \E response \in {HttpResponse(404, "Not Found", "missing"), HttpResponse(500, "", "")} :
          /\ settled' = Some(Settled("AxiosError", Some(response), "Request failed"))
          /\ Return(formatAxiosError(Some(response), "Request failed",
                                     RequestContext(ValueOf(request))))
    /\ UNCHANGED <<request, httpCalls>>

\* axios.request rejects with an AxiosError without a response: a connection
\* error or the timeout.
HttpRejectsWithoutResponse ==
    /\ ExecOnly
    /\ phase = "awaiting"
    /\ \E message \in {"connect ECONNREFUSED", "timeout of 15000ms exceeded"} :
          /\ settled' = Some(Settled("AxiosError", Undefined, message))
          /\ Return(formatAxiosError(Undefined, message, RequestContext(ValueOf(request))))
    /\ UNCHANGED <<request, httpCalls>>

\* axios.request throws an error that is no AxiosError.
HttpThrowsOther ==
    /\ ExecOnly
    /\ phase = "awaiting"
    /\ settled' = Some(Settled("Error", Undefined, "message"))
    /\ Return(ErrorResult(<<"Unexpected error: ", "message">>))
    /\ UNCHANGED <<request, httpCalls>>

ExecNext ==
    \/ ReturnNoBaseUrl
    \/ ReturnMissingPathParams
    \/ ThrowFromBuildRequestUrl
    \/ ReturnMissingBody
    \/ DispatchRequest
    \/ HttpResolves
    \/ HttpRejectsWithStatus
    \/ HttpRejectsWithoutResponse
    \/ HttpThrowsOther

\* ----------------------------------------------------------- schema compiler
\* Schema nodes of a document.
NoSchema == [kind |-> "undefined"]
RefNode(ref) == [kind |-> "ref", ref |-> ref]
StringNode == [kind |-> "string"]
ArrayNode(items) == [kind |-> "array", items |-> items]
ObjectNode(properties, required) ==
    [kind |-> "object", properties |-> properties, required |-> required]

\* A node without properties and items: its type (one name, a list of names,
\* or none), its nullable flag and its enum values.
TypeOf(isList, names) == [isList |-> isList, names |-> names]
SchemaNode(type, nullable, enum) ==
    [kind |-> "schema", type |-> type, nullable |-> nullable, enum |-> enum]

\* Compiled schemas.
ZEnum(values) == [zod |-> "enum", values |-> values]
ZNullable(inner) == [zod |-> "nullable", inner |-> inner]
ZAny == [zod |-> "any"]
ZString == [zod |-> "string"]
ZArray(element) == [zod |-> "array", element |-> element]
ZOptional(inner) == [zod |-> "optional", inner |-> inner]
ZObject(shape) == [zod |-> "object", shape |-> shape]

\* resolveReference(item, spec): follows a chain of $ref nodes to the first
\* node that is no reference; undefined for a reference met twice on the
\* chain and for a reference without a target.
RECURSIVE resolveReference(_, _, _)
resolveReference(item, spec, visited) ==
    IF item.kind = "undefined" THEN NoSchema
    ELSE IF item.kind # "ref" THEN item
    ELSE IF item.ref \in visited THEN NoSchema
    ELSE IF item.ref \notin DOMAIN spec THEN NoSchema
    ELSE IF spec[item.ref].kind = "ref"
         THEN resolveReference(spec[item.ref], spec, visited \cup {item.ref})
         ELSE spec[item.ref]

\* A return that leaves the reference in the set.
VisitedKept(visited, ref) == visited

\* visitedRefs.delete(schema.$ref)
VisitedDelete(visited, ref) == visited \ {ref}

\* A guard that never finds a reference on the current path.
NeverVisited(ref, visited) == FALSE

\* visitedRefs.has(schema.$ref)
AlreadyVisited(ref, visited) == ref \in visited

\* The definitions of a document, and a reference no document defines.
DefinitionNames == {"#/A", "#/B"}
MissingRef == "#/M"

\* The nodes a definition is built from, and the definitions: a leaf, an array
\* of a leaf, an object of one or two leaf properties of which x is required.
LeafNodes == {RefNode(r) : r \in DefinitionNames \cup {MissingRef}} \cup {StringNode}
DefinitionNodes ==
    LeafNodes
        \cup {ArrayNode(l) : l \in LeafNodes}
        \cup {ObjectNode(<<<<"x", l>>>>, {"x"}) : l \in LeafNodes}
        \cup {ObjectNode(<<<<"x", l[1]>>, <<"y", l[2]>>>>, {"x"}) : l \in LeafNodes \X LeafNodes}

Documents == [DefinitionNames -> DefinitionNodes]

\* The nodes without properties and items: of type string, of type null, of
\* the type lists [string, null] and [null, string], without type; with and
\* without nullable: true; with and without the enum ["a"].
LeafSchemas ==
    { SchemaNode(type, nullable, enum) :
        type \in {TypeOf(FALSE, <<"string">>), TypeOf(FALSE, <<"null">>),
                  TypeOf(TRUE, <<"string", "null">>), TypeOf(TRUE, <<"null", "string">>),
                  TypeOf(FALSE, <<>>)},
        nullable \in BOOLEAN,
        enum \in {<<>>, <<"a">>} }

\* Array.isArray(schema.type) ? schema.type.find((t) => t !== 'null') : schema.type
ResolvedType(type) ==
    IF type.isList
    THEN LET others == SelectSeq(type.names, LAMBDA t : t # "null")
         IN  IF others = <<>> THEN "undefined" ELSE Head(others)
    ELSE IF type.names = <<>> THEN "undefined" ELSE Head(type.names)

\* schema.nullable === true || schema.type === 'null'
IsNullable(schema) ==
    schema.nullable \/ (~schema.type.isList /\ schema.type.names = <<"null">>)

\* convertSchemaToZod of a node without $ref, properties and items.
ConvertLeafSchema(schema) ==
    IF schema.enum # <<>> THEN ZEnum(schema.enum)
    ELSE LET zodType == IF ResolvedType(schema.type) = "string" THEN ZString ELSE ZAny
         IN  IF IsNullable(schema) THEN ZNullable(zodType) ELSE zodType

\* A call frame: the function, its schema argument, where the call stands,
\* the loop index and the shape of buildObjectSchema, and the content of
\* visitedRefs when the call was entered.
Frame(fn, schema, pc, entry) ==
    [fn |-> fn, schema |-> schema, pc |-> pc, index |-> 1, shape |-> <<>>, entry |-> entry]

Top == callStack[Len(callStack)]
Pop == SubSeq(callStack, 1, Len(callStack) - 1)
ReplaceTop(frame) == Pop \o <<frame>>

\* A call of convertSchemaToZod(schema, spec, visitedRefs) from the top frame,
\* which goes on at pc when the call returns.
Call(pc, schema, visited) ==
    /\ Len(callStack) < MaxStack
    /\ callStack' = ReplaceTop([Top EXCEPT !.pc = pc])
                        \o <<Frame("convertSchemaToZod", schema, "enter", visited)>>
    /\ returnValue' = {}

\* The top frame returns a value to its caller.
ReturnValue(value) ==
    /\ callStack' = Pop
    /\ returnValue' = {value}

Entered(kind) ==
    /\ callStack # <<>>
    /\ Top.fn = "convertSchemaToZod"
    /\ Top.pc = "enter"
    /\ Top.schema.kind = kind

\* No compilation runs.
ZodIdle ==
    /\ document = [name \in DefinitionNames |-> StringNode]
    /\ callStack = <<>>
    /\ visitedRefs = {}
    /\ returnValue = {}
    /\ rootSchema = NoSchema

\* buildToolInputSchema compiles a schema of an operation: the schema was
\* resolved by resolveReference and visitedRefs is a new empty set. The schema
\* is a reference into a document, or an inline node of an operation.
ZodInit ==
    /\ \/ /\ document \in Documents
          /\ rootSchema \in {RefNode(r) : r \in DefinitionNames}
       \/ /\ document = [name \in DefinitionNames |-> StringNode]
          /\ rootSchema \in LeafSchemas
    /\ callStack =
          <<Frame("convertSchemaToZod", resolveReference(rootSchema, document, {}), "enter", {})>>
    /\ visitedRefs = {}
    /\ returnValue = {}

\* if (!schema) return z.any()
ConvertUndefined ==
    /\ ZodOnly
    /\ Entered("undefined")
    /\ ReturnValue(ZAny)
    /\ UNCHANGED <<document, rootSchema, visitedRefs>>

\* if (visitedRefs.has(schema.$ref)) return z.any()
ConvertRefVisited ==
    /\ ZodOnly
    /\ Entered("ref")
    /\ AlreadyVisited(Top.schema.ref, visitedRefs)
    /\ ReturnValue(ZAny)
    /\ UNCHANGED <<document, rootSchema, visitedRefs>>

\* if (!resolved) { visitedRefs.delete(schema.$ref); return z.any() }
ConvertRefUnresolved ==
    /\ ZodOnly
    /\ Entered("ref")
    /\ ~AlreadyVisited(Top.schema.ref, visitedRefs)
    /\ resolveReference(Top.schema, document, {}) = NoSchema
    /\ ReturnValue(ZAny)
    /\ visitedRefs' = VisitedDelete(visitedRefs \cup {Top.schema.ref}, Top.schema.ref)
    /\ UNCHANGED <<document, rootSchema>>

\* visitedRefs.add(schema.$ref); convertSchemaToZod(resolved, spec, visitedRefs)
ConvertRefResolved ==
    /\ ZodOnly
    /\ Entered("ref")
    /\ ~AlreadyVisited(Top.schema.ref, visitedRefs)
    /\ resolveReference(Top.schema, document, {}) # NoSchema
    /\ visitedRefs' = visitedRefs \cup {Top.schema.ref}
    /\ Call("afterRef", resolveReference(Top.schema, document, {}),
            visitedRefs \cup {Top.schema.ref})
    /\ UNCHANGED <<document, rootSchema>>

\* visitedRefs.delete(schema.$ref); return result
ConvertRefReturns ==
    /\ ZodOnly
    /\ callStack # <<>>
    /\ Top.fn = "convertSchemaToZod"
    /\ Top.pc = "afterRef"
    /\ returnValue # {}
    /\ visitedRefs' = VisitedDelete(visitedRefs, Top.schema.ref)
    /\ callStack' = Pop
    /\ UNCHANGED <<document, rootSchema, returnValue>>

\* case 'string': buildStringSchema(schema)
ConvertString ==
    /\ ZodOnly
    /\ Entered("string")
    /\ ReturnValue(ZString)
    /\ UNCHANGED <<document, rootSchema, visitedRefs>>

\* A node with an enum, a type that is none of the above, or nullable.
ConvertLeaf ==
    /\ ZodOnly
    /\ Entered("schema")
    /\ ReturnValue(ConvertLeafSchema(Top.schema))
    /\ UNCHANGED <<document, rootSchema, visitedRefs>>

\* case 'array': buildArraySchema compiles schema.items
ConvertArray ==
    /\ ZodOnly
    /\ Entered("array")
    /\ Call("buildArraySchema", Top.schema.items, visitedRefs)
    /\ UNCHANGED <<document, rootSchema, visitedRefs>>

\* return z.array(itemSchema)
ArrayReturns ==
    /\ ZodOnly
    /\ callStack # <<>>
    /\ Top.pc = "buildArraySchema"
    /\ returnValue # {}
    /\ \E itemSchema \in returnValue : ReturnValue(ZArray(itemSchema))
    /\ UNCHANGED <<document, rootSchema, visitedRefs>>

\* case 'object': buildObjectSchema starts with an empty shape
ConvertObject ==
    /\ ZodOnly
    /\ Entered("object")
    /\ callStack' = ReplaceTop([Top EXCEPT !.pc = "buildObjectSchema"])
    /\ UNCHANGED <<document, rootSchema, visitedRefs, returnValue>>

\* const propertySchema = convertSchemaToZod(value, spec, visitedRefs)
ObjectNextProperty ==
    /\ ZodOnly
    /\ callStack # <<>>
    /\ Top.pc = "buildObjectSchema"
    /\ Top.index <= Len(Top.schema.properties)
    /\ Call("property", Top.schema.properties[Top.index][2], visitedRefs)
    /\ UNCHANGED <<document, rootSchema, visitedRefs>>

\* shape[key] = required.has(key) ? propertySchema : propertySchema.optional()
ObjectPropertyReturns ==
    /\ ZodOnly
    /\ callStack # <<>>
    /\ Top.pc = "property"
    /\ returnValue # {}
    /\ \E propertySchema \in returnValue :
          LET key == Top.schema.properties[Top.index][1]
              entry == IF key \in Top.schema.required
                       THEN propertySchema ELSE ZOptional(propertySchema)
          IN  callStack' = ReplaceTop([Top EXCEPT !.pc = "buildObjectSchema",
                                                  !.index = @ + 1,
                                                  !.shape = Append(@, <<key, entry>>)])
    /\ returnValue' = {}
    /\ UNCHANGED <<document, rootSchema, visitedRefs>>

\* return z.object(shape).strict()
ObjectReturns ==
    /\ ZodOnly
    /\ callStack # <<>>
    /\ Top.pc = "buildObjectSchema"
    /\ Top.index > Len(Top.schema.properties)
    /\ ReturnValue(ZObject(Top.shape))
    /\ UNCHANGED <<document, rootSchema, visitedRefs>>

ZodNext ==
    \/ ConvertUndefined
    \/ ConvertRefVisited
    \/ ConvertRefUnresolved
    \/ ConvertRefResolved
    \/ ConvertRefReturns
    \/ ConvertString
    \/ ConvertLeaf
    \/ ConvertArray
    \/ ArrayReturns
    \/ ConvertObject
    \/ ObjectNextProperty
    \/ ObjectPropertyReturns
    \/ ObjectReturns

\* ----------------------------------------------------------- tool handler
\* The operations of the tools: GET /a; GET /{i} with a required path
\* parameter of type string; GET /a with a declared query parameter q; GET /a
\* with a required query parameter q of type string; POST /a with a required
\* body without schema; POST /a with an optional body of type string.
ToolOperation(method, apiPath, pathParameters, queryParameters, requestBody) ==
    [method |-> method, path |-> apiPath,
     parameters |-> [path |-> pathParameters, query |-> queryParameters],
     requestBody |-> requestBody]

Parameter(name, required, schema) == [name |-> name, required |-> required, schema |-> schema]

BodyOf(required, contentTypes, schema) ==
    [required |-> required, contentTypes |-> contentTypes, schema |-> schema]

ToolOperations ==
    { ToolOperation("GET", <<"/", "a">>, <<>>, <<>>, Undefined),
      ToolOperation("GET", <<"/", "{", "i", "}">>,
                    <<Parameter(<<"i">>, TRUE, StringNode)>>, <<>>, Undefined),
      ToolOperation("GET", <<"/", "a">>, <<>>,
                    <<Parameter(<<"q">>, FALSE, StringNode)>>, Undefined),
      ToolOperation("GET", <<"/", "a">>, <<>>,
                    <<Parameter(<<"q">>, TRUE, StringNode)>>, Undefined),
      ToolOperation("POST", <<"/", "a">>, <<>>, <<>>,
                    Some(BodyOf(TRUE, <<"application/json">>, NoSchema))),
      ToolOperation("POST", <<"/", "a">>, <<>>, <<>>,
                    Some(BodyOf(FALSE, <<>>, StringNode))) }

\* The keys of the input shape buildToolInputSchema builds for an operation.
DeclaredKeys(op) ==
    {"baseUrl", "token", "headers"}
        \cup (IF op.parameters.path # <<>> THEN {"pathParams"} ELSE {})
        \cup (IF op.parameters.query # <<>> THEN {"query"} ELSE {})
        \cup (IF IsDefined(op.requestBody) THEN {"body", "contentType"} ELSE {})

\* The schema of a leaf: z.string() for type string, z.any() for no schema.
LeafAccepts(schema, value) == schema = NoSchema \/ value.type = "string"

\* An entry of a parameters object of the input: <<key, value>>.
EntryFor(entries, name) == { e \in 1..Len(entries) : entries[e][1] = name }

\* createParametersObject(...).safeParse(entries): a declared parameter has a
\* value its schema accepts; a required one may be absent only if its schema
\* accepts undefined, which z.any() does.
ParametersAccept(parameters, entries) ==
    \A p \in 1..Len(parameters) :
        IF EntryFor(entries, parameters[p].name) = {}
        THEN ~parameters[p].required \/ parameters[p].schema = NoSchema
        ELSE \A e \in EntryFor(entries, parameters[p].name) :
                LeafAccepts(parameters[p].schema, entries[e][2])

\* .catchall(z.union([z.string(), z.number(), z.boolean()]).optional())
CatchallAccepts(parameters, entries) ==
    \A e \in 1..Len(entries) :
        (\A p \in 1..Len(parameters) : parameters[p].name # entries[e][1])
            => entries[e][2].type \in {"string", "number", "boolean", "undefined"}

\* The keys the input object has.
KeysOf(raw) == { key \in DOMAIN raw : IsDefined(raw[key]) }

\* A query key without .optional(): an operation with query parameters must
\* be given a query object.
QueryRequired(op, raw) ==
    op.parameters.query # <<>> =>
        /\ IsDefined(raw.query)
        /\ ParametersAccept(op.parameters.query, ValueOf(raw.query))
        /\ CatchallAccepts(op.parameters.query, ValueOf(raw.query))

\* createParametersObject(...).catchall(...).optional(): the query key may be
\* absent; a query object is checked against the parameters and the catchall.
QueryAccepts(op, raw) ==
    IsDefined(raw.query) =>
        /\ ParametersAccept(op.parameters.query, ValueOf(raw.query))
        /\ CatchallAccepts(op.parameters.query, ValueOf(raw.query))

\* z.object(inputShape).strict().safeParse(rawInput).success
ValidationSucceeds(op, raw) ==
    /\ KeysOf(raw) \subseteq DeclaredKeys(op)
    /\ op.parameters.path # <<>> =>
          /\ IsDefined(raw.pathParams)
          /\ ParametersAccept(op.parameters.path, ValueOf(raw.pathParams))
    /\ QueryAccepts(op, raw)
    /\ IsDefined(op.requestBody) =>
          IF IsDefined(raw.body)
          THEN LeafAccepts(ValueOf(op.requestBody).schema, ValueOf(raw.body))
          ELSE ~ValueOf(op.requestBody).required \/ ValueOf(op.requestBody).schema = NoSchema

\* A validation without .strict(): undeclared keys are let through.
ValidationNotStrict(op, raw) ==
    ValidationSucceeds(op, [key \in DOMAIN raw |->
                               IF key \in DeclaredKeys(op) THEN raw[key] ELSE Undefined])

\* parsed.success
ParseSuccess(op, raw) == ValidationSucceeds(op, raw)

ObjectValue == [type |-> "object", v |-> <<>>]
BooleanValue == [type |-> "boolean", v |-> TRUE]

\* The arguments of a tool call; extra is a key no input shape declares.
RawInputs ==
    [baseUrl : {Undefined, Some(<<"u", "/">>)},
     token : {Undefined, Some("explicit")},
     headers : {Undefined, Some([k \in {"Accept"} |-> "text/csv"])},
     accept : {Undefined, Some("application/xml")},
     pathParams : {Undefined, Some(<<>>), Some(<<<<<<"i">>, StrValue(<<"4">>)>>>>),
                   Some(<<<<<<"i">>, NumValue(7)>>>>)},
     query : {Undefined, Some(<<<<<<"q">>, StrValue(<<"4">>)>>>>),
              Some(<<<<<<"e">>, StrValue(<<"4">>)>>>>),
              Some(<<<<<<"e">>, NumValue(7)>>>>),
              Some(<<<<<<"e">>, BooleanValue>>>>),
              Some(<<<<<<"e">>, ObjectValue>>>>)},
     body : {Undefined, Some(StrValue(<<"4">>)), Some(NumValue(7))},
     contentType : {Undefined, Some("text/xml")},
     extra : {Undefined, Some("x")}]

TextValidationFailed == <<"Input validation failed: ">>

\* No tool is called.
ToolIdle ==
    /\ toolOperation = ToolOperation("GET", <<"/", "a">>, <<>>, <<>>, Undefined)
    /\ rawInput = CHOOSE raw \in RawInputs : \A key \in DOMAIN raw : raw[key] = Undefined
    /\ parsed = Undefined
    /\ toolResult = Undefined
    /\ toolRequests = <<>>

\* A tool is called with arguments.
ToolInit ==
    /\ toolOperation \in ToolOperations
    /\ rawInput \in RawInputs
    /\ parsed = Undefined
    /\ toolResult = Undefined
    /\ toolRequests = <<>>

Pending == parsed = Undefined /\ toolResult = Undefined

\* if (!parsed.success) return { isError: true, ... }
ValidationFails ==
    /\ ToolOnly
    /\ Pending
    /\ ~ParseSuccess(toolOperation, rawInput)
    /\ toolResult' = Some(ErrorResult(TextValidationFailed))
    /\ UNCHANGED <<toolOperation, rawInput, parsed, toolRequests>>

\* return executeOperation(operation, parsed.data)
ValidationPasses ==
    /\ ToolOnly
    /\ Pending
    /\ ParseSuccess(toolOperation, rawInput)
    /\ parsed' = Some(rawInput)
    /\ UNCHANGED <<toolOperation, rawInput, toolResult, toolRequests>>

\* executeOperation(operation, parsed.data) has been called and has neither
\* returned nor reached axios.request.
Executing == IsDefined(parsed) /\ toolResult = Undefined /\ toolRequests = <<>>

\* The error result of the first precondition of executeOperation that fails:
\* no base URL, a required path parameter without value, a required body
\* without payload.
PreconditionError(op, in, api) ==
    IF EffectiveBaseUrl(in, api) = <<>> THEN Some(ErrorResult(TextNoBaseUrl))
    ELSE IF MissingPathParams(op, in) # <<>>
         THEN Some(ErrorResult(TextMissingPathParams \o Join(MissingPathParams(op, in))))
    ELSE IF MissingBody(op, in) THEN Some(ErrorResult(TextMissingBody))
    ELSE Undefined

\* executeOperation returns the error result of a precondition.
ExecuteReturnsError ==
    /\ ToolOnly
    /\ Executing
    /\ IsDefined(PreconditionError(toolOperation, ValueOf(parsed), apiConfig))
    /\ toolResult' = PreconditionError(toolOperation, ValueOf(parsed), apiConfig)
    /\ UNCHANGED <<toolOperation, rawInput, parsed, toolRequests>>

\* executeOperation reaches axios.request; the path parameters of RawInputs
\* are well-formed strings, which encodeURIComponent accepts.
ExecuteDispatches ==
    /\ ToolOnly
    /\ Executing
    /\ PreconditionError(toolOperation, ValueOf(parsed), apiConfig) = Undefined
    /\ RequestOf(toolOperation, ValueOf(parsed), apiConfig, securityConfig).url # URIError
    /\ toolRequests' =
          Append(toolRequests, RequestOf(toolOperation, ValueOf(parsed), apiConfig, securityConfig))
    /\ UNCHANGED <<toolOperation, rawInput, parsed, toolResult>>

ToolNext ==
    \/ ValidationFails
    \/ ValidationPasses
    \/ ExecuteReturnsError
    \/ ExecuteDispatches

\* ----------------------------------------------------------- parameter grouping
\* The values of a parameter's `in`: the four locations of OpenAPI 3, the
\* locations body and formData of Swagger 2, or none.
Locations == {"path", "query", "header", "cookie", "body", "formData"}

\* const grouped = { path: [], query: [], header: [], cookie: [] }
EmptyGroups == [location \in {"path", "query", "header", "cookie"} |-> <<>>]

\* The parameter lists of an operation; a parameter is named by its position.
ParameterLists ==
    UNION { [1..n -> [in : {Undefined} \cup {Some(l) : l \in Locations}]] : n \in 0..MaxParams }

ParameterAt(i) == [name |-> i, in |-> parameterList[i].in]

\* parameter.in ?? 'query'
LocationOf(parameter) == Coalesce(parameter.in, "query")

\* groupParametersByLocation is not called.
GroupIdle ==
    /\ parameterList = <<>>
    /\ grouped = EmptyGroups
    /\ handled = 0
    /\ groupsReturned = FALSE

\* groupParametersByLocation is called with a parameter list.
GroupInit ==
    /\ parameterList \in ParameterLists
    /\ grouped = EmptyGroups
    /\ handled = 0
    /\ groupsReturned = FALSE

\* grouped[location].push(parameter), for a location that has a group.
PushToGroup ==
    /\ GroupOnly
    /\ ~groupsReturned
    /\ handled < Len(parameterList)
    /\ LET parameter == ParameterAt(handled + 1)
           location == LocationOf(parameter)
       IN  /\ location \in DOMAIN grouped
           /\ grouped' = [grouped EXCEPT ![location] = Append(@, parameter)]
    /\ handled' = handled + 1
    /\ UNCHANGED <<parameterList, groupsReturned>>

\* if (!grouped[location]) grouped[location] = []; grouped[location].push(parameter)
PushToNewGroup ==
    /\ GroupOnly
    /\ ~groupsReturned
    /\ handled < Len(parameterList)
    /\ LET parameter == ParameterAt(handled + 1)
           location == LocationOf(parameter)
       IN  /\ location \notin DOMAIN grouped
           /\ grouped' = [l \in DOMAIN grouped \cup {location} |->
                             IF l = location THEN <<parameter>> ELSE grouped[l]]
    /\ handled' = handled + 1
    /\ UNCHANGED <<parameterList, groupsReturned>>

\* return grouped
ReturnGrouped ==
    /\ GroupOnly
    /\ ~groupsReturned
    /\ handled = Len(parameterList)
    /\ groupsReturned' = TRUE
    /\ UNCHANGED <<parameterList, grouped, handled>>

GroupNext ==
    \/ PushToGroup
    \/ PushToNewGroup
    \/ ReturnGrouped

\* ----------------------------------------------------------- request body
\* The content types a media type map may have as keys.
ContentTypes == {"application/json", "application/problem+json", "application/xml", "text/plain"}

\* type.includes('json')
IncludesJson(type) == type \in {"application/json", "application/problem+json"}

\* The content maps: the entries in the order of the document, no key twice.
Contents ==
    { c \in UNION { [1..n -> [type : ContentTypes, schema : {NoSchema, StringNode}]] :
                       n \in 0..MaxContentTypes } :
        \A i \in 1..Len(c), j \in 1..Len(c) : i # j => c[i].type # c[j].type }

\* The requestBody objects of an operation.
RequestBodies == [required : BOOLEAN, content : Contents]

\* Object.keys(content)
ObjectKeys(content) == [i \in 1..Len(content) |-> content[i].type]

\* contentTypes.find((type) => type.includes('json')) ?? contentTypes[0]
preferredContentType(contentTypes) ==
    LET jsonLike == { i \in 1..Len(contentTypes) : IncludesJson(contentTypes[i]) }
    IN  IF jsonLike # {}
        THEN Some(contentTypes[CHOOSE i \in jsonLike : \A j \in jsonLike : i <= j])
        ELSE IF contentTypes # <<>> THEN Some(contentTypes[1]) ELSE Undefined

\* content[preferredContentType].schema, resolved.
SchemaOf(content, preferred) ==
    IF IsDefined(preferred)
    THEN LET entry == CHOOSE i \in 1..Len(content) : content[i].type = ValueOf(preferred)
         IN  resolveReference(content[entry].schema, [r \in {} |-> NoSchema], {})
    ELSE NoSchema

\* normalizeRequestBody(requestBody, spec) for a requestBody that is present.
normalizeRequestBody(requestBody) ==
    LET contentTypes == ObjectKeys(requestBody.content)
    IN  BodyOf(requestBody.required, contentTypes,
               SchemaOf(requestBody.content, preferredContentType(contentTypes)))

\* normalizeRequestBody is not called.
BodyIdle ==
    /\ bodyArg = Undefined
    /\ contentTypeArg = Undefined
    /\ bodyDescriptor = Undefined
    /\ contentTypeSent = Undefined
    /\ bodyPhase = "idle"

\* An operation with or without a requestBody is normalized, and its tool is
\* called with or without a contentType.
BodyInit ==
    /\ bodyArg \in {Undefined} \cup {Some(b) : b \in RequestBodies}
    /\ contentTypeArg \in {Undefined, Some("text/csv")}
    /\ bodyDescriptor = Undefined
    /\ contentTypeSent = Undefined
    /\ bodyPhase = "normalize"

\* if (!requestBody) return undefined
NormalizeReturnsUndefined ==
    /\ BodyOnly
    /\ bodyPhase = "normalize"
    /\ bodyArg = Undefined
    /\ bodyPhase' = "normalized"
    /\ UNCHANGED <<bodyArg, contentTypeArg, bodyDescriptor, contentTypeSent>>

\* return { required, contentTypes, schema }
NormalizeReturnsDescriptor ==
    /\ BodyOnly
    /\ bodyPhase = "normalize"
    /\ IsDefined(bodyArg)
    /\ bodyDescriptor' = Some(normalizeRequestBody(ValueOf(bodyArg)))
    /\ bodyPhase' = "normalized"
    /\ UNCHANGED <<bodyArg, contentTypeArg, contentTypeSent>>

\* if (operation.requestBody) headers['Content-Type'] = contentType
SetContentType ==
    /\ BodyOnly
    /\ bodyPhase = "normalized"
    /\ IsDefined(bodyDescriptor)
    /\ contentTypeSent' = Some(ContentTypeOf([requestBody |-> bodyDescriptor],
                                             [contentType |-> contentTypeArg]))
    /\ bodyPhase' = "sent"
    /\ UNCHANGED <<bodyArg, contentTypeArg, bodyDescriptor>>

\* The operation has no requestBody: no Content-Type is set.
LeaveContentType ==
    /\ BodyOnly
    /\ bodyPhase = "normalized"
    /\ bodyDescriptor = Undefined
    /\ bodyPhase' = "sent"
    /\ UNCHANGED <<bodyArg, contentTypeArg, bodyDescriptor, contentTypeSent>>

BodyNext ==
    \/ NormalizeReturnsUndefined
    \/ NormalizeReturnsDescriptor
    \/ SetContentType
    \/ LeaveContentType

\* ----------------------------------------------------------- specifications
\* Each component is checked on its own: the other components rest in their
\* initial state.
InitNorm == NormInit /\ SessInit /\ UrlIdle /\ ExecIdle /\ ZodIdle /\ ToolIdle /\ GroupIdle /\ BodyIdle

SpecNorm == InitNorm /\ [][NormNext]_vars

InitSess == NormInit /\ SessInit /\ UrlIdle /\ ExecIdle /\ ZodIdle /\ ToolIdle /\ GroupIdle /\ BodyIdle

SpecSess == InitSess /\ [][SessNext]_vars

InitUrl == NormInit /\ SessInit /\ UrlInit /\ ExecIdle /\ ZodIdle /\ ToolIdle /\ GroupIdle /\ BodyIdle

SpecUrl == InitUrl /\ [][UrlNext]_vars

InitExec == NormInit /\ SessInit /\ UrlIdle /\ ExecInit /\ ZodIdle /\ ToolIdle /\ GroupIdle /\ BodyIdle

SpecExec == InitExec /\ [][ExecNext]_vars

InitZod == NormInit /\ SessInit /\ UrlIdle /\ ExecIdle /\ ZodInit /\ ToolIdle /\ GroupIdle /\ BodyIdle

\* The compilation is synchronous code: a step that can be taken is taken.
SpecZod == InitZod /\ [][ZodNext]_vars /\ WF_vars(ZodNext)

InitTool == NormInit /\ SessInit /\ UrlIdle /\ ExecIdle /\ ZodIdle /\ ToolInit /\ GroupIdle /\ BodyIdle

SpecTool == InitTool /\ [][ToolNext]_vars

InitGroup ==
    NormInit /\ SessInit /\ UrlIdle /\ ExecIdle /\ ZodIdle /\ ToolIdle /\ GroupInit /\ BodyIdle

SpecGroup == InitGroup /\ [][GroupNext]_vars

InitBody ==
    NormInit /\ SessInit /\ UrlIdle /\ ExecIdle /\ ZodIdle /\ ToolIdle /\ GroupIdle /\ BodyInit

SpecBody == InitBody /\ [][BodyNext]_vars

\* ----------------------------------------------------------------- claims
\* C1: after buildOperationsFromSpec returns, no two operations of the
\* returned list have the same id.
C1_UniqueIds ==
    returned => \A i, j \in 1..Len(operations) :
                    operations[i].id = operations[j].id => i = j

\* A step that answers a request.
Answered == reqCount' = reqCount + 1

\* The session ids whose session has been closed.
ClosedSids ==
    {instances[i].sessionId : i \in {j \in 1..Len(instances) :
        instances[j].sessionId # NoSid /\ instances[j].serverClosed}}

\* C2: an accepted initialization adds exactly one entry to the session map;
\* an entry keeps its record (server instance and transport) as long as it is
\* in the map, and a request carrying its id is handled by that record's
\* transport; a closed session's id is absent from the map, and a request
\* carrying an id that is not in the map is answered 404 "Unknown session".
C2_StepOk ==
    /\ (Answered /\ resp'.message = "initialized") =>
          /\ Cardinality(DOMAIN sessions') = Cardinality(DOMAIN sessions) + 1
          /\ DOMAIN sessions \subseteq DOMAIN sessions'
    /\ \A sid \in DOMAIN sessions \cap DOMAIN sessions' : sessions'[sid] = sessions[sid]
    /\ (Answered /\ resp'.sid \in DOMAIN sessions) =>
          resp'.routed = sessions[resp'.sid].transport
    /\ \A sid \in ClosedSids' : sid \notin DOMAIN sessions'
    /\ (Answered /\ resp'.sid # NoSid /\ resp'.sid \notin DOMAIN sessions) =>
          /\ resp'.status = 404
          /\ resp'.message = Message404

C2_SessionLifecycle == [][C2_StepOk]_vars

\* A request carrying the id of a session that was closed has been answered
\* 404, while another session is live.
C2_Witness ==
    /\ resp.sid \in ClosedSids
    /\ resp.status = 404
    /\ sessions # <<>>

\* The requests the handlers reject themselves.
Rejectable(r, map) ==
    \/ r.method = "POST" /\ r.sid = NoSid /\ ~r.isInitializeRequest
    \/ r.method \in {"GET", "DELETE"} /\ r.sid = NoSid
    \/ r.sid # NoSid /\ r.sid \notin DOMAIN map

\* C3: a POST without a session id that is no initialization request, a GET
\* or DELETE without a session id, and a request naming a session id that is
\* not in the map are answered 400, 400 and 404, and the step that answers
\* leaves the session map and the server and transport instances as they were.
C3_StepOk ==
    (Answered /\ Rejectable(resp', sessions)) =>
        /\ resp'.status = IF resp'.sid = NoSid THEN 400 ELSE 404
        /\ resp'.message = IF resp'.sid # NoSid THEN Message404
                           ELSE IF resp'.method = "POST" THEN Message400Init
                           ELSE Message400Missing
        /\ UNCHANGED <<sessions, instances, pendingInit>>

C3_RejectionHasNoEffect == [][C3_StepOk]_vars

\* A request is rejected while a session is live and an initialization is in
\* flight.
C3_Witness ==
    /\ resp.status \in {400, 404}
    /\ resp.routed = 0
    /\ sessions # <<>>
    /\ pendingInit # {}

\* The template with every placeholder of a key of pathParams, at every
\* place it occurs, replaced by the encoded string form of the key's value.
RECURSIVE EveryOccurrenceReplaced(_, _)
EveryOccurrenceReplaced(template, entries) ==
    IF template = <<>> THEN <<>>
    ELSE LET keys == {k \in ParamKeys :
                         HasParam(entries, k) /\ OccursAt(template, Placeholder(k), 1)}
         IN  IF keys = {}
             THEN <<Head(template)>> \o EveryOccurrenceReplaced(Tail(template), entries)
             ELSE LET k == CHOOSE x \in keys : TRUE
                  IN  encodeURIComponent(StringOf(ParamValue(entries, k)))
                          \o EveryOccurrenceReplaced(
                                 SubSeq(template, Len(Placeholder(k)) + 1, Len(template)),
                                 entries)

RECURSIVE StripAllTrailing(_)
StripAllTrailing(s) ==
    IF s # <<>> /\ s[Len(s)] = "/" THEN StripAllTrailing(SubSeq(s, 1, Len(s) - 1)) ELSE s

RECURSIVE StripAllLeading(_)
StripAllLeading(s) == IF s # <<>> /\ Head(s) = "/" THEN StripAllLeading(Tail(s)) ELSE s

\* The path part of a URL buildRequestUrl returned: what follows the base URL
\* less one trailing slash, and the separating slash.
ReturnedPath ==
    SubSeq(urlResult, Len(StripTrailingSlash(urlBase)) + 2, Len(urlResult))

\* C8: in the URL buildRequestUrl returns, every occurrence of a placeholder
\* {name} of the template is replaced by the URL-encoded string form of
\* pathParams[name], also when the placeholder occurs more than once.
C8_EveryOccurrenceReplaced ==
    (urlResult # NoUrl /\ urlResult # URIError) =>
        ReturnedPath = StripLeadingSlash(EveryOccurrenceReplaced(urlPath, urlParams))

\* C9: the URL buildRequestUrl returns has exactly one slash between the base
\* URL and the path, whatever number of slashes the base URL ends with and
\* the path starts with.
C9_ExactlyOneSlash ==
    (urlResult # NoUrl /\ urlResult # URIError) =>
        urlResult = StripAllTrailing(urlBase) \o <<"/">>
                        \o StripAllLeading(SubstitutePathParams(urlPath, urlParams))

\* ----------------------------------------------------------- request executor
\* executeOperation has ended, by returning or by throwing.
Ended == phase \in {"returned", "threw"}

\* The names of the operation's required path parameters that have no value
\* in the input's pathParams.
RequiredWithoutValue ==
    { operation.parameters.path[p].name : p \in
        { q \in 1..Len(operation.parameters.path) :
            /\ operation.parameters.path[q].required
            /\ \/ input.pathParams = {}
               \/ \A entries \in input.pathParams :
                    \A e \in 1..Len(entries) :
                       entries[e][1] # operation.parameters.path[q].name } }

\* A base URL is available: the input's, or a non-empty configured one.
BaseUrlAvailable == input.baseUrl # {} \/ apiConfig.baseUrl # <<>>

\* The message names a parameter.
Names(text, name) == \E i \in 1..Len(text) : OccursAt(text, name, i)

\* C4 (as stated): whenever a required path parameter has no value in a
\* validated input, executeOperation returns an error result whose message
\* names every missing required path parameter, and makes no HTTP call.
C4_Original ==
    (Ended /\ Validated(operation, input) /\ RequiredWithoutValue # {}) =>
        /\ phase = "returned"
        /\ result.isError
        /\ \A name \in RequiredWithoutValue : Names(result.text, name)
        /\ httpCalls = 0

\* C4 (amended): whenever a required path parameter has no value in a
\* validated input, executeOperation returns an error result and makes no HTTP
\* call; the message names every missing required path parameter provided a
\* base URL is available (without one the result is the base URL error).
C4_MissingPathParamsRejected ==
    (Ended /\ Validated(operation, input) /\ RequiredWithoutValue # {}) =>
        /\ phase = "returned"
        /\ result.isError
        /\ httpCalls = 0
        /\ request = {}
        /\ BaseUrlAvailable =>
              \A name \in RequiredWithoutValue : Names(result.text, name)

\* Two required path parameters are missing and both are named.
C4_Witness ==
    /\ phase = "returned"
    /\ Validated(operation, input)
    /\ BaseUrlAvailable
    /\ RequiredWithoutValue = {<<"i">>, <<"j">>}
    /\ result.isError
    /\ result.text = <<"Missing required path parameters: ", "i", ",", " ", "j">>
    /\ httpCalls = 0

\* The operation requires a body and the input has none.
RequiredBodyMissing ==
    /\ operation.requestBody # {}
    /\ \A body \in operation.requestBody : body.required
    /\ input.body = {}

\* C5: if the operation's request body is required and input.body is
\* undefined, or if no base URL is available, executeOperation returns an
\* error result and makes no HTTP call.
C5_PreconditionErrors ==
    (Ended /\ (RequiredBodyMissing \/ ~BaseUrlAvailable)) =>
        /\ phase = "returned"
        /\ result.isError
        /\ httpCalls = 0

\* C6: an execution of executeOperation makes at most one HTTP call, and
\* exactly one when the base URL, the required path parameters and the
\* required body pass; after a failure the call is not repeated.
C6_ExactlyOneCall ==
    /\ httpCalls <= 1
    /\ (Ended /\ BaseUrlAvailable /\ RequiredWithoutValue = {} /\ ~RequiredBodyMissing)
          => httpCalls = 1

\* The outbound request carries the auth header with this value.
AuthHeaderIs(headers, value) == HeaderName \in DOMAIN headers /\ headers[HeaderName] = value

\* The outbound request's auth header is what the caller's header map had.
AuthHeaderAsSupplied(headers) ==
    \/ /\ input.headers = {} \/ \A supplied \in input.headers : HeaderName \notin DOMAIN supplied
       /\ HeaderName \notin DOMAIN headers
    \/ \E supplied \in input.headers :
          /\ HeaderName \in DOMAIN supplied
          /\ AuthHeaderIs(headers, supplied[HeaderName])

\* C7 (as stated): with no token in the input and a default credential
\* configured, the outbound authtoken header is the default; with an explicit
\* token in the input it is the explicit token; the header is added only if a
\* token is available.
C7_Original ==
    \A req \in request :
        /\ (input.token = {} /\ securityConfig.token # "")
              => AuthHeaderIs(req.headers, securityConfig.token)
        /\ \A token \in input.token : AuthHeaderIs(req.headers, token)
        /\ (input.token = {} /\ securityConfig.token = "")
              => AuthHeaderAsSupplied(req.headers)

\* C7 (amended): with no token in the input and a non-empty default
\* credential, the outbound authtoken header is the default; with an explicit
\* non-empty token it is the explicit token; otherwise (an explicit empty
\* token, or no token and no default) the executor adds no auth header and
\* the caller's header map decides.
C7_AuthInjection ==
    \A req \in request :
        /\ (input.token = {} /\ securityConfig.token # "")
              => AuthHeaderIs(req.headers, securityConfig.token)
        /\ \A token \in input.token :
              IF token # "" THEN AuthHeaderIs(req.headers, token)
              ELSE AuthHeaderAsSupplied(req.headers)
        /\ (input.token = {} /\ securityConfig.token = "")
              => AuthHeaderAsSupplied(req.headers)

\* An explicit token replaces both the default and the caller's own header.
C7_Witness ==
    /\ phase = "awaiting"
    /\ input.token = {"explicit"}
    /\ securityConfig.token = "default"
    /\ \E supplied \in input.headers : HeaderName \in DOMAIN supplied
    /\ \E req \in request : req.headers[HeaderName] = "explicit"

\* ----------------------------------------------------------- schema compiler
\* The references of the compilation chain: those of the calls of
\* convertSchemaToZod on a $ref node that have not returned yet.
ChainRefs ==
    { callStack[i].schema.ref : i \in
        { j \in 1..Len(callStack) :
            callStack[j].fn = "convertSchemaToZod" /\ callStack[j].pc = "afterRef" } }

\* A call on a reference that is on the compilation chain returns z.any().
RemetCompilesToAny ==
    (/\ callStack # <<>>
     /\ Top.pc = "enter"
     /\ Top.schema.kind = "ref"
     /\ Top.schema.ref \in ChainRefs)
        => (callStack' = Pop /\ returnValue' = {ZAny})

\* The outermost call of convertSchemaToZod has returned a schema.
Compiled == callStack = <<>> /\ returnValue # {}

\* C10: on every document, with self-referencing and mutually referencing
\* definitions and chains of $ref nodes that lead back to themselves,
\* convertSchemaToZod returns, without exhausting the call stack, and a
\* reference met again on the current compilation chain compiles to z.any().
C10_CycleSafety ==
    /\ [](Len(callStack) < MaxStack)
    /\ [][RemetCompilesToAny]_vars
    /\ <>Compiled

\* A definition whose property references the definition itself is compiled:
\* the branch where the reference is met again accepts anything.
C10_Witness ==
    /\ document["#/A"] = ObjectNode(<<<<"x", RefNode("#/A")>>>>, {"x"})
    /\ Compiled
    /\ returnValue = {ZObject(<<<<"x", ZObject(<<<<"x", ZAny>>>>)>>>>)}

\* ----------------------------------------------------------- tool handler
\* The tool call has been answered or handed to executeOperation.
Handled == parsed # {} \/ toolResult # {}

\* The values of the extra keys under query are strings, numbers or booleans.
QueryExtrasPrimitive ==
    \A entries \in rawInput.query :
        \A e \in 1..Len(entries) :
            entries[e][2].type \in {"string", "number", "boolean"}

\* C11: an input with a top-level key the operation's contract does not
\* declare is rejected with a validation error and executeOperation is not
\* called; for an operation with query parameters an input that has only a
\* query object, with extra keys of primitive values, is accepted.
C11_Strictness ==
    Handled =>
        /\ ~(KeysOf(rawInput) \subseteq DeclaredKeys(toolOperation)) =>
              /\ parsed = {}
              /\ \E r \in toolResult : r.isError /\ r.text = TextValidationFailed
        /\ (/\ toolOperation.parameters.query # <<>>
            /\ KeysOf(rawInput) = {"query"}
            /\ ParametersAccept(toolOperation.parameters.query, ValueOf(rawInput.query))
            /\ QueryExtrasPrimitive) =>
              /\ parsed = {rawInput}
              /\ toolResult = {}

\* An input whose only fault is an undeclared top-level key is rejected by an
\* operation without query parameters.
C11_Witness ==
    /\ toolOperation.parameters.query = <<>>
    /\ KeysOf(rawInput) = {"extra"}
    /\ parsed = {}
    /\ \E r \in toolResult : r.isError

\* The Accept header the claim gives the outbound request.
ExpectedAccept ==
    IF rawInput.accept # {} THEN CHOOSE a \in rawInput.accept : TRUE
    ELSE IF \E h \in rawInput.headers : "Accept" \in DOMAIN h /\ h["Accept"] # ""
         THEN (CHOOSE h \in rawInput.headers : TRUE)["Accept"]
         ELSE "application/json"

\* C12: a tool call whose input is valid but for an accept value is accepted
\* and the outbound Accept header equals that value; without it an Accept
\* header of input.headers is kept, and otherwise it is application/json.
C12_AcceptOverride ==
    (Handled /\ ValidationSucceeds(toolOperation, [rawInput EXCEPT !.accept = {}])) =>
        /\ \A r \in toolResult : r.text # TextValidationFailed
        /\ \E data \in parsed :
              AssembleHeaders(data, securityConfig)["Accept"] = ExpectedAccept

\* ----------------------------------------------------------- error classification
\* C13: when axios reports a received response with an error status the
\* result is an error result whose structured content carries the status,
\* statusText, headers and body of that response; when no response was
\* received it is an error result whose structured content carries the
\* request context (method, URL, headers, query, body) and no response.
C13_ErrorClassification ==
    phase = "returned" =>
        \A outcome \in settled :
            outcome.kind = "AxiosError" =>
                /\ result.isError
                /\ \E content \in result.structuredContent :
                      /\ \E req \in request :
                            content.request = [method |-> req.method, url |-> req.url,
                                               headers |-> req.headers, params |-> input.query,
                                               body |-> input.body]
                      /\ IF outcome.response = {}
                         THEN content.response = {}
                         ELSE \E received \in outcome.response :
                                 \E carried \in content.response :
                                    /\ carried.status = received.status
                                    /\ carried.statusText = received.statusText
                                    /\ carried.headers = received.headers
                                    /\ carried.data = received.data

\* The remote API answered 404 and the result carries that response.
C13_Witness ==
    /\ phase = "returned"
    /\ \E outcome \in settled :
          /\ outcome.kind = "AxiosError"
          /\ \E received \in outcome.response : received.status = 404
    /\ \E content \in result.structuredContent :
          \E carried \in content.response : carried.status = 404

\* C14: executeOperation never throws: for every operation and every
\* validated input it ends by returning a result.
C14_NeverThrows ==
    (Ended /\ Validated(operation, input)) => phase = "returned"

\* ----------------------------------------------------------- closing a session
\* The instances whose transport is connected and has a session.
Established ==
    { i \in 1..Len(instances) : i \notin pendingInit /\ instances[i].sessionId # NoSid }

\* The two ways a session is closed, applied to a session map and instances.
CloseBy(callback, map, insts, i) ==
    IF callback = "onsessionclosed"
    THEN onsessionclosed(map, insts, i, insts[i].sessionId)
    ELSE onclose(map, insts, i)

\* C15: either close callback removes the session's entry and closes its
\* server instance; a second close by either callback leaves the session map
\* and the closed instance as the first left them, and no close removes or
\* changes the entry of another session.
C15_CloseIdempotent ==
    \A i \in Established :
        \A first \in {"onsessionclosed", "onclose"}, second \in {"onsessionclosed", "onclose"} :
            LET once == CloseBy(first, sessions, instances, i)
                twice == CloseBy(second, once.sessions, once.instances, i)
            IN  /\ instances[i].sessionId \notin DOMAIN once.sessions
                /\ once.instances[i].serverClosed
                /\ \A sid \in DOMAIN sessions \ {instances[i].sessionId} :
                      /\ sid \in DOMAIN once.sessions
                      /\ once.sessions[sid] = sessions[sid]
                /\ twice.sessions = once.sessions
                /\ twice.instances[i].serverClosed
                /\ \A j \in 1..Len(instances) \ {i} :
                      twice.instances[j] = instances[j]

\* A session was closed twice, by onsessionclosed and then by onclose, while
\* another session stays in the map.
C15_Witness ==
    /\ \E i \in Established :
          /\ instances[i].closes = 2
          /\ instances[i].serverClosed
          /\ instances[i].sessionId \notin DOMAIN sessions
    /\ resp.message = "closed"
    /\ sessions # <<>>

\* ----------------------------------------------------------- parameter grouping
\* The parameters of a group.
Members(location) ==
    IF location \in DOMAIN grouped
    THEN { grouped[location][k] : k \in 1..Len(grouped[location]) }
    ELSE {}

\* C16: parameters.path contains only parameters whose location is path, and
\* every parameter whose location is missing or is none of path, query,
\* header, cookie is in parameters.query.
C16_ParameterGrouping ==
    groupsReturned =>
        /\ \A parameter \in Members("path") : parameter.in = {"path"}
        /\ \A i \in 1..Len(parameterList) :
              (parameterList[i].in \cap {"path", "query", "header", "cookie"} = {})
                  => ParameterAt(i) \in Members("query")

\* ----------------------------------------------------------- nullability
\* The compiled schema accepts null.
AcceptsNull(zodType) == zodType.zod \in {"nullable", "any"}

\* C17: a node that has nullable: true, or whose type is a list that includes
\* "null", compiles to a schema that accepts null, also when it declares an
\* enum.
C17_Nullability ==
    (/\ Compiled
     /\ rootSchema.kind = "schema"
     /\ \/ rootSchema.nullable
        \/ rootSchema.type.isList /\ \E k \in 1..Len(rootSchema.type.names) :
                                        rootSchema.type.names[k] = "null")
        => \A zodType \in returnValue : AcceptsNull(zodType)

\* ----------------------------------------------------------- chain-scoped guard
\* A call returns: its frame leaves the stack.
Returns == Len(callStack') < Len(callStack)

\* The compiled schema of a property of an object schema.
ShapeEntry(zodType, key) ==
    LET k == CHOOSE n \in 1..Len(zodType.shape) : zodType.shape[n][1] = key
    IN  zodType.shape[k][2]

\* The root is an object whose properties x and y reference the same
\* definition, which is not the root's own definition and has no reference.
SiblingsShare(ref) ==
    /\ rootSchema.kind = "ref"
    /\ rootSchema.ref # ref
    /\ document[rootSchema.ref] = ObjectNode(<<<<"x", RefNode(ref)>>, <<"y", RefNode(ref)>>>>, {"x"})
    /\ document[ref] \in {StringNode, ArrayNode(StringNode)}

\* The schema a definition without references compiles to.
CompiledPlain(node) == IF node = StringNode THEN ZString ELSE ZArray(ZString)

\* C18: on every return from convertSchemaToZod visitedRefs equals the set at
\* entry to that call; a call on a reference returns z.any() at once only if
\* the reference is on the current chain or cannot be resolved; and two
\* sibling properties that reference the same definition both compile to that
\* definition's schema.
C18_StepOk ==
    /\ Returns => visitedRefs' = Top.entry
    /\ (Returns /\ Top.pc = "enter" /\ Top.schema.kind = "ref") =>
          \/ Top.schema.ref \in ChainRefs
          \/ resolveReference(Top.schema, document, {}) = NoSchema
    /\ \A ref \in DefinitionNames :
          (SiblingsShare(ref) /\ callStack' = <<>>) =>
              \A zodType \in returnValue' :
                  /\ ShapeEntry(zodType, "x") = CompiledPlain(document[ref])
                  /\ ShapeEntry(zodType, "y") = ZOptional(CompiledPlain(document[ref]))

C18_ChainScoped == [][C18_StepOk]_vars

\* Both sibling references to one definition are compiled to its schema.
C18_Witness ==
    /\ Compiled
    /\ SiblingsShare("#/B")
    /\ returnValue = {ZObject(<<<<"x", ZString>>, <<"y", ZOptional(ZString)>>>>)}
    /\ visitedRefs = {}

\* ----------------------------------------------------------- content type
\* The Content-Type the claim gives a request with a body.
ExpectedContentType ==
    IF input.contentType # {} THEN CHOOSE c \in input.contentType : TRUE
    ELSE IF \E body \in operation.requestBody : body.contentTypes # <<>>
         THEN (CHOOSE body \in operation.requestBody : TRUE).contentTypes[1]
         ELSE "application/json"

\* C19: the outbound request of a validated input carries a Content-Type
\* header set by the executor only if the input has a body; then its value is
\* input.contentType, else the operation's first content type, else
\* application/json.
C19_ContentType ==
    Validated(operation, input) =>
        \A req \in request :
            IF input.body = {}
            THEN "Content-Type" \notin DOMAIN req.headers
            ELSE /\ "Content-Type" \in DOMAIN req.headers
                 /\ req.headers["Content-Type"] = ExpectedContentType

\* ----------------------------------------------------------- concurrent sessions
\* The instances whose initialization completed and that are not closed.
Live == { i \in Established : ~instances[i].serverClosed }

\* The session map holds exactly the live sessions, each under its own id with
\* its own record, and nothing for an initialization that failed.
MapIsLiveSessions ==
    /\ DOMAIN sessions = { instances[i].sessionId : i \in Live }
    /\ \A i \in Live : sessions[instances[i].sessionId] = [server |-> i, transport |-> i]
    /\ \A i \in Live, j \in Live : i # j => instances[i].sessionId # instances[j].sessionId
    /\ \A i \in 1..Len(instances) :
          (i \notin pendingInit /\ instances[i].sessionId = NoSid) =>
              \A sid \in DOMAIN sessions : sessions[sid].server # i

\* A request that names a session is handled by the transport of that live
\* session or answered 404.
RoutedOrUnknown ==
    (Answered /\ resp'.sid # NoSid) =>
        \/ /\ resp'.sid \in DOMAIN sessions
           /\ resp'.routed \in Live
           /\ instances[resp'.routed].sessionId = resp'.sid
        \/ /\ resp'.sid \notin DOMAIN sessions
           /\ resp'.status = 404

\* C20: under every interleaving of initializations, session requests,
\* terminations and channel closures the session map contains exactly the
\* sessions whose initialization completed and which are not closed, with
\* distinct entries and records, and a request is routed to a live session or
\* rejected as unknown.
C20_MapUnderInterleaving ==
    /\ []MapIsLiveSessions
    /\ [][RoutedOrUnknown]_vars

\* Two initializations were in flight together and completed in the reverse
\* order of their creation; both sessions are in the map.
C20_Witness ==
    /\ DOMAIN sessions = {1, 2}
    /\ sessions[1].server = 2
    /\ sessions[2].server = 1

\* ----------------------------------------------------------- preferred content type
\* The request body declares several content types, one of them JSON-like.
SeveralWithJson ==
    /\ IsDefined(bodyDescriptor)
    /\ Len(ValueOf(bodyDescriptor).contentTypes) > 1
    /\ \E i \in 1..Len(ValueOf(bodyDescriptor).contentTypes) :
          IncludesJson(ValueOf(bodyDescriptor).contentTypes[i])

\* The schema of the descriptor is the schema the document gives a media type.
SchemaIsOf(type) ==
    \E i \in 1..Len(ValueOf(bodyArg).content) :
        /\ ValueOf(bodyArg).content[i].type = type
        /\ ValueOf(bodyArg).content[i].schema = ValueOf(bodyDescriptor).schema

\* C21: when a request body declares several content types including a
\* JSON-like one, the contentTypes list of the operation has the JSON-like type
\* first, and the Content-Type sent by default is the content type whose schema
\* became the schema of the body.
C21_JsonFirst ==
    (bodyPhase = "sent" /\ SeveralWithJson) =>
        /\ IncludesJson(ValueOf(bodyDescriptor).contentTypes[1])
        /\ contentTypeArg = Undefined =>
              /\ contentTypeSent = preferredContentType(ValueOf(bodyDescriptor).contentTypes)
              /\ SchemaIsOf(ValueOf(contentTypeSent))

\* ----------------------------------------------------------- required query parameters
\* The operation declares a query parameter marked required.
RequiredQueryParameter ==
    \E p \in 1..Len(toolOperation.parameters.query) : toolOperation.parameters.query[p].required

\* The call has ended: with an error result, or at axios.request.
Finished == toolResult # {} \/ toolRequests # <<>>

\* The input has no query and is valid for the operation's other keys.
ValidWithoutQuery ==
    /\ rawInput.query = {}
    /\ ValidationSucceeds([toolOperation EXCEPT !.parameters.query = <<>>], rawInput)

\* The input has a query object that lacks a required parameter whose schema
\* does not accept undefined.
QueryLacksRequired ==
    \E entries \in rawInput.query :
        \E p \in 1..Len(toolOperation.parameters.query) :
            /\ toolOperation.parameters.query[p].required
            /\ toolOperation.parameters.query[p].schema # NoSchema
            /\ EntryFor(entries, toolOperation.parameters.query[p].name) = {}

\* C22: for an operation with a required query parameter, a call that omits
\* query and is valid otherwise passes the validation, no check of
\* executeOperation answers for the missing parameter, and the call is
\* dispatched as one HTTP request without query parameters; a call whose query
\* object lacks the required parameter is rejected by the validation.
C22_QueryOptional ==
    (Finished /\ RequiredQueryParameter) =>
        /\ ValidWithoutQuery =>
              /\ parsed = {rawInput}
              /\ toolResult = PreconditionError(toolOperation, rawInput, apiConfig)
              /\ toolResult = {} =>
                    /\ Len(toolRequests) = 1
                    /\ toolRequests[1].params = {}
        /\ QueryLacksRequired =>
              /\ parsed = {}
              /\ toolRequests = <<>>
              /\ \E r \in toolResult : r.isError /\ r.text = TextValidationFailed

\* A call without query to an operation with a required query parameter has
\* reached axios.request.
C22_Witness ==
    /\ RequiredQueryParameter
    /\ rawInput.query = {}
    /\ Len(toolRequests) = 1
    /\ toolRequests[1].params = {}

====
